---- MODULE Spec2Model ----
(***************************************************************************)
(* Model of the Dagger CI module BoundaryLayer                             *)
(* (src/dagger/src/main/__init__.py).                                      *)
(*                                                                         *)
(* A string is modelled as the sequence of its lines and a line as the     *)
(* sequence of the fragments an f-string or a command prints, so that      *)
(* "\n".join() is the concatenation of line sequences and the empty string *)
(* is the single empty line.  A container is the declarative description   *)
(* built by the dag.container() chain; the engine evaluates it only when   *)
(* stdout() is awaited.  The anyio task groups of all() and ci() are       *)
(* modelled task by task: every child task has a position, the group's     *)
(* cancel scope is cancelled as soon as a child raises, and the host of    *)
(* the group leaves the `async with` block only when every child is over.  *)
(***************************************************************************)
EXTENDS Integers, Sequences, FiniteSets, TLC

\* ---------------------------------------------------------------- strings

\* the string "" : one empty line
EmptyStr == << <<>> >>

RECURSIVE Flatten(_)
Flatten(strs) ==
    IF strs = <<>> THEN <<>> ELSE Head(strs) \o Flatten(Tail(strs))

\* "\n".join(strs)
Join(strs) == IF strs = <<>> THEN EmptyStr ELSE Flatten(strs)

\* ------------------------------------------------------------ the object

\* ci(): python_versions = ["3.7", "3.8", "3.9"]
python_versions == <<"3.7", "3.8", "3.9">>

\* the default of the field `version`
DefaultVersion == "3.12"

\* the default of the field `env`
DefaultEnv == "local"

\* the directory handle given by the caller (DefaultPath("/"))
SourceDir == "/"

\* the objects the caller may call: the one of the defaults, and one with
\* both `env` and `version` given
CallerObjects ==
    {[dir |-> SourceDir, env |-> DefaultEnv, version |-> DefaultVersion],
     [dir |-> SourceDir, env |-> "ci", version |-> "3.9"]}

\* BoundaryLayer(dir=..., env=..., version=...)
BoundaryLayer(d, e, v) == [dir |-> d, env |-> e, version |-> v]

\* no object: the pipeline slot is not in use
NoObject == BoundaryLayer("", "", "")

\* ------------------------------------------------------------ containers

\* Container.with_exec(args)
with_exec(c, args) == [c EXCEPT !.execs = Append(@, args)]

\* base() with one cache volume for every version
base_onecache(self) ==
    [ image   |-> <<"python:", self.version>>,
      dirs    |-> << <<"/src", self.dir>> >>,
      workdir |-> "/src",
      cache   |-> [path |-> "/root/.cache/pip",
                   name |-> <<"boundry-layer-python-", DefaultVersion>>],
      execs   |-> << <<"sh", "-c", "python -m pip install --upgrade pip">>,
                     <<"sh", "-c", "pip install tox==3.27.1 flake8">> >> ]

\* base() with the cache volume named after the environment label
base_envcache(self) ==
    [ image   |-> <<"python:", self.version>>,
      dirs    |-> << <<"/src", self.dir>> >>,
      workdir |-> "/src",
      cache   |-> [path |-> "/root/.cache/pip",
                   name |-> <<"boundry-layer-python-", self.env>>],
      execs   |-> << <<"sh", "-c", "python -m pip install --upgrade pip">>,
                     <<"sh", "-c", "pip install tox==3.27.1 flake8">> >> ]

\* base(): the python container of self.version with pip, tox and flake8
base(self) ==
    [ image   |-> <<"python:", self.version>>,
      dirs    |-> << <<"/src", self.dir>> >>,
      workdir |-> "/src",
      cache   |-> [path |-> "/root/.cache/pip",
                   name |-> <<"boundry-layer-python-", self.version>>],
      execs   |-> << <<"sh", "-c", "python -m pip install --upgrade pip">>,
                     <<"sh", "-c", "pip install tox==3.27.1 flake8">> >> ]

\* the two flake8 passes of lint(); the command string is cut at its options
StrictLint ==
    <<"sh", "-c", "flake8 boundary_layer boundary_layer_default_plugin bin test --count",
      "--select=E9,F63,F7,F82", "--show-source --statistics">>
PermissiveLint ==
    <<"sh", "-c", "flake8 boundary_layer boundary_layer_default_plugin bin test --count",
      "--exit-zero", "--max-complexity=10 --max-line-length=127 --statistics">>

\* lint(): base() followed by the strict and then the permissive pass
lint(self) == with_exec(with_exec(base(self), StrictLint), PermissiveLint)

\* test(): base() followed by an echo of the tox command line (the argument
\* of echo is the f-string around self.version; its shell quotes are left out)
test(self) ==
    with_exec(base(self),
              <<"echo", "tox --recreate -e py[echo ", self.version,
                " | tr -d .] test">>)

\* the container of the version probe of all()
probe(self) == with_exec(base(self), <<"python", "--version">>)

\* ------------------------------------------------------------- the engine

\* the exit codes a command can end with: echo and flake8 --exit-zero always
\* exit 0, every other command exits 0 or non-zero
ExitCodes(args) ==
    IF args[1] = "echo" \/ (\E k \in DOMAIN args : args[k] = "--exit-zero")
    THEN {0}
    ELSE {0, 1}

\* the step of a container description that resolves the image (from_)
FromStep == <<"from_">>

\* what the engine does with the container c when its stdout is asked for,
\* given the set `broken` of the (image, step) pairs that fail: the image is
\* not resolved, or the commands run in order up to the first that exits
\* non-zero.  The engine answers equal descriptions equally within one call.
Evaluate(c, broken) ==
    IF [image |-> c.image, at |-> FromStep] \in broken
    THEN [pulled |-> FALSE, exits |-> <<>>]
    ELSE LET bad == {k \in DOMAIN c.execs :
                        /\ [image |-> c.image, at |-> c.execs[k]] \in broken
                        /\ 1 \in ExitCodes(c.execs[k])}
             last == IF bad = {} THEN Len(c.execs)
                     ELSE CHOOSE k \in bad : \A j \in bad : k <= j
         IN  [pulled |-> TRUE,
              exits  |-> [j \in 1..last |-> IF j \in bad THEN 1 ELSE 0]]

\* the engine ran every command of c and each exited 0
Succeeded(c, r) ==
    /\ r.pulled
    /\ Len(r.exits) = Len(c.execs)
    /\ r.exits[Len(r.exits)] = 0

\* what a command prints in the container c, as one line (the newline that
\* ends it is left out): echo its arguments, python --version the version of
\* the image, a shell command a line naming the image and the command
Prints(c, args) ==
    IF args[1] = "echo" THEN << Tail(args) >>
    ELSE IF args[1] = "python" THEN << <<"Python ", c.image[2]>> >>
    ELSE << <<c.image[1], c.image[2], "$ ">> \o SubSeq(args, 3, Len(args)) >>

\* Container.stdout(): the output of the last command of the chain
stdout(c) == Prints(c, c.execs[Len(c.execs)])

\* --------------------------------------------------------------- the state

\* at most this many steps fail in the engine during one call
MaxFaults == 1

VARIABLES
    entry,      \* the function the caller invoked: "all", "ci" or "base"
    self,       \* the object the caller invoked it on
    faults,     \* the (image, step) pairs the engine fails at during this call
    callPc,     \* the call: "called", "waiting" (in a task group), "returned", "raised"
    result,     \* the string handed to the caller when callPc = "returned"
    bl,         \* bl[p]: the object pipeline p runs all() on
    plState,    \* plState[p]: position of the task running all() for pipeline p
    task,       \* task[p][t]: the arguments (coro, index) of the t-th task of all()
    stState,    \* stState[p][t]: position of the t-th task run(coro, index)
    ran,        \* ran[p][t]: what the engine did for the coroutine of that task
    output,     \* output[p]: the list `output` of all() in pipeline p
    writes,     \* writes[p][i]: the tasks that assigned output[i], in order
    ciOutput,   \* the list `output` of ci()
    envs,       \* the descriptions base() returned to the caller, with the object of each
    built,      \* built[p]: what each call of base() made by all() of pipeline p returned
    order       \* the pipelines whose all() returned, in the order they returned

vars == <<entry, self, faults, callPc, result, bl, plState, task, stState, ran,
          output, writes, ciOutput, envs, built, order>>

\* the indexes of the list `output` of all(): [""]*3
Slots == 0..2

\* the tasks of the group of all(), in the order of the start_soon calls
Tasks == 1..3

\* the pipelines: one per element of python_versions under ci(), the first
\* alone when the caller invokes all()
Pipelines == 1..Len(python_versions)

NoContainer == [image |-> <<>>, dirs |-> <<>>, workdir |-> "",
                cache |-> [path |-> "", name |-> <<>>], execs |-> <<>>]
NoTask == [coro |-> NoContainer, index |-> -1]
NoRun == [pulled |-> FALSE, exits |-> <<-1>>]

StageOver == {"done", "raised", "cancelled"}
PipelineOver == {"returned", "raised", "cancelled"}

\* the cancel scope of the task group of ci() is cancelled once a child raised
CiCancelled == entry = "ci" /\ \E q \in Pipelines : plState[q] = "raised"

\* cancellation reaches the tasks of the group of all() in pipeline p: a child
\* of the group raised, or the enclosing scope of ci() is cancelled
AllCancelled(p) == (\E t \in Tasks : stState[p][t] = "raised") \/ CiCancelled

\* the steps that can fail in the containers of version v: the resolution of
\* the image, every command that can exit non-zero, and the command line an
\* echo prints (it fails when it is run, which echoing it does not do)
Failable(v) ==
    LET o == BoundaryLayer(SourceDir, DefaultEnv, v)
        cmds == UNION {{c.execs[k] : k \in DOMAIN c.execs} : c \in {probe(o), lint(o), test(o)}}
    IN  {[image |-> base(o).image, at |-> FromStep]}
        \cup {[image |-> base(o).image, at |-> a] : a \in {x \in cmds : 1 \in ExitCodes(x)}}
        \cup {[image |-> base(o).image, at |-> Tail(a)] : a \in {x \in cmds : x[1] = "echo"}}

\* the versions a call builds containers of
Built(e, o) ==
    IF e = "ci" THEN {python_versions[k] : k \in DOMAIN python_versions}
    ELSE {o.version}

\* the state in which nothing has been called yet
Idle ==
    /\ callPc = "called"
    /\ result = EmptyStr
    /\ bl = [p \in Pipelines |-> NoObject]
    /\ plState = [p \in Pipelines |-> "none"]
    /\ task = [p \in Pipelines |-> [t \in Tasks |-> NoTask]]
    /\ stState = [p \in Pipelines |-> [t \in Tasks |-> "none"]]
    /\ ran = [p \in Pipelines |-> [t \in Tasks |-> NoRun]]
    /\ output = [p \in Pipelines |-> [i \in Slots |-> EmptyStr]]
    /\ writes = [p \in Pipelines |-> [i \in Slots |-> <<>>]]
    /\ ciOutput = <<>>
    /\ envs = {}
    /\ built = [p \in Pipelines |-> <<>>]
    /\ order = <<>>

\* the calls of the caller: all() on each of its objects, and ci() on the
\* object with a given env (ci() reads of its object only dir and env, and
\* only to copy them)
Calls ==
    {[entry |-> "all", self |-> o] : o \in CallerObjects}
    \cup {[entry |-> "ci", self |-> o] : o \in {x \in CallerObjects : x.env # DefaultEnv}}

Init ==
    /\ \E c \in Calls :
          /\ entry = c.entry
          /\ self = c.self
    /\ faults \in {f \in SUBSET (UNION {Failable(v) : v \in Built(entry, self)}) :
                      Cardinality(f) <= MaxFaults}
    /\ Idle

\* ci() building its branch objects without passing env on
ci_objects_defaultenv(s) ==
    [p \in Pipelines |-> BoundaryLayer(s.dir, DefaultEnv, python_versions[p])]

\* ci() reusing its own object for every branch
ci_objects_shared(s) ==
    [p \in Pipelines |-> BoundaryLayer(s.dir, s.env, s.version)]

\* the objects ci() runs all() on, one per version: a fresh object with the
\* version substituted and dir and env taken from self
ci_objects(s) ==
    [p \in Pipelines |-> BoundaryLayer(s.dir, s.env, python_versions[p])]

\* the caller's call of ci(): one fresh object and one task run(bl.all()) per
\* version, all started before the first await
ci ==
    /\ entry = "ci" /\ callPc = "called"
    /\ callPc' = "waiting"
    /\ ciOutput' = <<>>
    /\ bl' = ci_objects(self)
    /\ plState' = [p \in Pipelines |-> "scheduled"]
    /\ UNCHANGED <<entry, self, faults, result, task, stState, ran, output, writes, envs,
                   built, order>>

\* the caller's call of all() on its own object
call_all ==
    /\ entry = "all" /\ callPc = "called"
    /\ callPc' = "waiting"
    /\ bl' = [bl EXCEPT ![1] = self]
    /\ plState' = [plState EXCEPT ![1] = "scheduled"]
    /\ UNCHANGED <<entry, self, faults, result, task, stState, ran, output, writes,
                   ciOutput, envs, built, order>>

\* all() with the indexes of lint and test exchanged
all_tasks_swapped(s) ==
    << [coro |-> probe(s), index |-> 0],
       [coro |-> lint(s),  index |-> 2],
       [coro |-> test(s),  index |-> 1] >>

\* all() with the index of lint given to test as well
all_tasks_sameslot(s) ==
    << [coro |-> probe(s), index |-> 0],
       [coro |-> lint(s),  index |-> 1],
       [coro |-> test(s),  index |-> 1] >>

\* the arguments of the three start_soon calls of all(): the coroutine and the
\* index of its slot
all_tasks(s) ==
    << [coro |-> probe(s), index |-> 0],
       [coro |-> lint(s),  index |-> 1],
       [coro |-> test(s),  index |-> 2] >>

\* what the calls of base() made for the three coroutines of all() return:
\* the call of all() itself, the call in lint() and the call in test()
base_calls(s) == <<base(s), base(s), base(s)>>

\* all() up to the end of the `async with` body: the three slots, the three
\* coroutines and the three tasks.  A task started by start_soon runs to its
\* `await coro` without touching the state, so it is awaiting from the start.
all(p) ==
    /\ plState[p] = "scheduled"
    /\ output' = [output EXCEPT ![p] = [i \in Slots |-> EmptyStr]]
    /\ writes' = [writes EXCEPT ![p] = [i \in Slots |-> <<>>]]
    /\ task' = [task EXCEPT ![p] = all_tasks(bl[p])]
    /\ built' = [built EXCEPT ![p] = base_calls(bl[p])]
    /\ stState' = [stState EXCEPT ![p] = [t \in Tasks |-> "awaiting"]]
    /\ plState' = [plState EXCEPT ![p] = "waiting"]
    /\ UNCHANGED <<entry, self, faults, callPc, result, bl, ran, ciOutput, envs, order>>

\* the coroutine of task run(coro, index) ends: output[index] = await coro, or
\* the engine's failure is raised out of the task.  A task whose answer came
\* before the scope was cancelled is the interleaving in which it resumes first.
run(p, t) ==
    /\ stState[p][t] = "awaiting"
    /\ ~AllCancelled(p)
    /\ LET c == task[p][t].coro
           i == task[p][t].index
           r == Evaluate(c, faults)
       IN /\ ran' = [ran EXCEPT ![p][t] = r]
          /\ IF Succeeded(c, r)
             THEN /\ output' = [output EXCEPT ![p][i] = stdout(c)]
                  /\ writes' = [writes EXCEPT ![p][i] = Append(@, t)]
                  /\ stState' = [stState EXCEPT ![p][t] = "done"]
             ELSE /\ UNCHANGED <<output, writes>>
                  /\ stState' = [stState EXCEPT ![p][t] = "raised"]
    /\ UNCHANGED <<entry, self, faults, callPc, result, bl, plState, task, ciOutput,
                   envs, built, order>>

\* the cancelled scope of the group of all() in pipeline p delivers the
\* cancellation: every child still at its await ends there, cancelled.  The
\* cancelled tasks touch no state, so the order they end in is not modelled.
run_cancelled(p) ==
    /\ \E t \in Tasks : stState[p][t] = "awaiting"
    /\ AllCancelled(p)
    /\ stState' = [stState EXCEPT ![p] =
                      [t \in Tasks |-> IF stState[p][t] = "awaiting"
                                       THEN "cancelled" ELSE stState[p][t]]]
    /\ UNCHANGED <<entry, self, faults, callPc, result, bl, plState, task, ran, output,
                   writes, ciOutput, envs, built, order>>

\* a group that is left as soon as one child is over
all_joined_first(p) == \E t \in Tasks : stState[p][t] \in StageOver

\* a group that waits until every child has written its result
all_joined_alldone(p) == \A t \in Tasks : stState[p][t] = "done"

\* a group that does not wait for its children
all_joined_nowait(p) == TRUE

\* the group of all() in pipeline p may be left: every child is over
all_joined(p) == \A t \in Tasks : stState[p][t] \in StageOver

\* list.append(x) putting x in front
append_front(list, x) == <<x>> \o list

\* list.append(x), as run(coro) of ci() does with what all() returned
append(list, x) == Append(list, x)

\* a group that drops what its children raised
AllOutcomes_swallow(p) == {"returned"}

\* how all() of pipeline p leaves its task group: the group re-raises what a
\* child raised; a cancelled host ends cancelled; otherwise all() returns
AllOutcomes(p) ==
    IF \E t \in Tasks : stState[p][t] = "raised" THEN {"raised"}
    ELSE IF \E t \in Tasks : stState[p][t] = "cancelled" THEN {"cancelled"}
    ELSE IF CiCancelled THEN {"returned", "cancelled"}
    ELSE {"returned"}

\* all() leaves the `async with` block and returns "\n".join(output), or the
\* group re-raises; under ci() the task run(coro) appends what all() returned
all_exit(p) ==
    /\ plState[p] = "waiting"
    /\ all_joined(p)
    /\ \E o \in AllOutcomes(p) :
          /\ plState' = [plState EXCEPT ![p] = o]
          /\ order' = IF o = "returned" THEN Append(order, p) ELSE order
          /\ IF entry = "ci"
             THEN /\ ciOutput' = IF o = "returned"
                                  THEN append(ciOutput,
                                         Join(<<output[p][0], output[p][1], output[p][2]>>))
                                  ELSE ciOutput
                  /\ UNCHANGED <<callPc, result>>
             ELSE /\ callPc' = o
                  /\ result' = IF o = "returned"
                               THEN Join(<<output[p][0], output[p][1], output[p][2]>>)
                               ELSE result
                  /\ UNCHANGED ciOutput
    /\ UNCHANGED <<entry, self, faults, bl, task, stState, ran, output, writes, envs,
                   built>>

\* the group of ci() may be left: every child is over
ci_joined == \A p \in Pipelines : plState[p] \in PipelineOver

\* ci() leaves the `async with` block and returns "\n".join(output), or the
\* group re-raises
ci_exit ==
    /\ entry = "ci" /\ callPc = "waiting"
    /\ ci_joined
    /\ IF \E p \in Pipelines : plState[p] = "raised"
       THEN callPc' = "raised" /\ result' = result
       ELSE callPc' = "returned" /\ result' = Join(ciOutput)
    /\ UNCHANGED <<entry, self, faults, bl, plState, task, stState, ran, output, writes,
                   ciOutput, envs, built, order>>

Next ==
    \/ ci
    \/ call_all
    \/ \E p \in Pipelines : all(p)
    \/ \E p \in Pipelines, t \in Tasks : run(p, t)
    \/ \E p \in Pipelines : run_cancelled(p)
    \/ \E p \in Pipelines : all_exit(p)
    \/ ci_exit

Spec == Init /\ [][Next]_vars

\* ------------------------------------------------- base() called on its own

\* the objects base() is called on: every env with every version in use
BaseObjects ==
    {BoundaryLayer(SourceDir, e, v) :
        e \in {DefaultEnv, "ci"},
        v \in {python_versions[k] : k \in DOMAIN python_versions} \cup {DefaultVersion}}

InitBase ==
    /\ entry = "base"
    /\ self \in BaseObjects
    /\ faults = {}
    /\ Idle

\* the caller's call of base(): the description is returned, nothing is run
call_base ==
    /\ entry = "base" /\ callPc = "called"
    /\ envs' = envs \cup {[of |-> self, is |-> base(self)]}
    /\ callPc' = "returned"
    /\ UNCHANGED <<entry, self, faults, result, bl, plState, task, stState, ran, output,
                   writes, ciOutput, built, order>>

\* the caller constructs another object and calls base() on it
next_call ==
    /\ entry = "base" /\ callPc = "returned"
    /\ self' \in BaseObjects
    /\ callPc' = "called"
    /\ UNCHANGED <<entry, faults, result, bl, plState, task, stState, ran, output,
                   writes, ciOutput, envs, built, order>>

NextBase == call_base \/ next_call

SpecBase == InitBase /\ [][NextBase]_vars

\* ------------------------------------------------------------ properties

CallOver == callPc \in {"returned", "raised"}

\* the engine runs the coroutine of task t of pipeline p to success
Succeeds(p, t) == Succeeded(task[p][t].coro, Evaluate(task[p][t].coro, faults))

\* the engine ran the coroutine of task t of pipeline p and it failed
StageFailed(p, t) == ran[p][t] # NoRun /\ ~Succeeded(task[p][t].coro, ran[p][t])

\* the reports all() handed to its caller so far
Reports ==
    IF entry = "ci" THEN {ciOutput[k] : k \in DOMAIN ciOutput}
    ELSE IF entry = "all" /\ callPc = "returned" THEN {result}
    ELSE {}

\* every line of the string str is a line of the report R
Contains(R, str) == \A k \in DOMAIN str : \E j \in DOMAIN R : R[j] = str[k]

\* the line is the output of the version probe, of the lint stage, of the test stage
IsProbeOut(l) == Len(l) = 2 /\ l[1] = "Python "
IsLintOut(l) == Len(l) >= 4 /\ l[3] = "$ " /\ l[4] = PermissiveLint[3]
IsTestOut(l) == Len(l) = 3 /\ l[1] = "tox --recreate -e py[echo "

\* C1: in all(), if one stage fails while the other two succeed, the siblings
\* still run to completion and the result handed to the caller contains the
\* output of both successful stages.
C1_PartialResults ==
    \A p \in Pipelines, t \in Tasks :
        ( /\ plState[p] \in PipelineOver
          /\ stState[p][t] = "raised"
          /\ \A u \in Tasks \ {t} : Succeeds(p, u) )
        => /\ \A u \in Tasks \ {t} : stState[p][u] = "done"
           /\ \E R \in Reports :
                 \A u \in Tasks \ {t} : Contains(R, stdout(task[p][u].coro))

\* C2: in ci(), the failure of one version's pipeline never cancels the
\* pipelines of the other versions: each of them runs all its stages to
\* completion and its sub-report is in the fleet report.
C2_FleetIsolation ==
    (entry = "ci" /\ CallOver) =>
        \A p \in Pipelines :
            ( /\ \A t \in Tasks : Succeeds(p, t)
              /\ \E q \in Pipelines \ {p} : plState[q] = "raised" )
            => /\ \A t \in Tasks : stState[p][t] = "done"
               /\ plState[p] = "returned"
               /\ callPc = "returned"
               /\ Contains(result, Join(<<output[p][0], output[p][1], output[p][2]>>))

\* C3: every report all() returns holds the stage outputs in the order
\* VersionProbe, Lint, Test, whatever order the three tasks completed in.
C3_StageOrder ==
    \A R \in Reports :
        /\ Len(R) = 3
        /\ IsProbeOut(R[1])
        /\ IsLintOut(R[2])
        /\ IsTestOut(R[3])

\* C3 witness: under ci() the three pipelines have each returned a report of
\* three stage outputs, the last pipeline of the list first
C3_Witness ==
    /\ entry = "ci"
    /\ Len(ciOutput) = Len(python_versions)
    /\ \A k \in DOMAIN ciOutput : Len(ciOutput[k]) = 3
    /\ ciOutput[1][1][2] = python_versions[Len(python_versions)]

\* the version of the j-th sub-report of the fleet report R
SubReportVersion(R, j) == R[3 * j - 2][2]

\* C4: the report ci() returns holds exactly one sub-report per version of
\* the version list, each made of the three stage outputs of that version.
C4_OnePerVersion ==
    (entry = "ci" /\ callPc = "returned") =>
        /\ Len(result) = 3 * Len(python_versions)
        /\ \A k \in DOMAIN python_versions :
              Cardinality({j \in DOMAIN python_versions :
                              SubReportVersion(result, j) = python_versions[k]}) = 1
        /\ \A j \in DOMAIN python_versions :
              /\ IsProbeOut(result[3 * j - 2])
              /\ result[3 * j - 1][2] = SubReportVersion(result, j)
              /\ result[3 * j][2] = SubReportVersion(result, j)

\* C4 witness: ci() returned a report whose first sub-report is not the one
\* of the first version of the list
C4_Witness ==
    /\ entry = "ci" /\ callPc = "returned"
    /\ SubReportVersion(result, 1) # python_versions[1]

\* C5: when all() is over every task of its group is over, and when the
\* caller's call is over every pipeline and every task is over.
C5_Structured ==
    /\ \A p \in Pipelines :
          plState[p] \in PipelineOver => \A t \in Tasks : stState[p][t] \in StageOver
    /\ CallOver =>
          \A p \in Pipelines :
              /\ plState[p] \notin {"scheduled", "waiting"}
              /\ \A t \in Tasks : stState[p][t] # "awaiting"

\* C5 witness: ci() raised after a pipeline raised, with tasks that ended cancelled
C5_Witness ==
    /\ entry = "ci" /\ callPc = "raised"
    /\ \E p \in Pipelines : plState[p] = "cancelled"
    /\ \E p \in Pipelines, t \in Tasks : stState[p][t] = "cancelled"

C8_NoRaise ==
    /\ \A p \in Pipelines, t \in Tasks : StageFailed(p, t) => stState[p][t] = "done"
    /\ \A p \in Pipelines : plState[p] # "raised"
    /\ callPc # "raised"

\* C9: two descriptions base() returned for objects of the same version have
\* the same image reference, cache volume, mounts, workdir and setup commands.
C9_Deterministic ==
    \A a \in envs, b \in envs :
        a.of.version = b.of.version =>
            /\ a.is.image = b.is.image
            /\ a.is.cache = b.is.cache
            /\ a.is.dirs = b.is.dirs
            /\ a.is.workdir = b.is.workdir
            /\ a.is.execs = b.is.execs

\* C9 witness: base() was called on two different objects of one version
C9_Witness ==
    \E a \in envs, b \in envs : a.of # b.of /\ a.of.version = b.of.version

\* C10: each slot of output is assigned at most once, and only by the task
\* that got its index: the first task slot 0, the second 1, the third 2.
C10_SlotWriters ==
    \A p \in Pipelines, i \in Slots :
        /\ Len(writes[p][i]) <= 1
        /\ \A k \in DOMAIN writes[p][i] : writes[p][i][k] = i + 1

\* C10 witness: the three tasks of a pipeline have each assigned their slot
C10_Witness ==
    \E p \in Pipelines : \A i \in Slots : writes[p][i] = <<i + 1>>

\* the task of pipeline p that was started with the index i
TaskOf(p, i) == CHOOSE t \in Tasks : task[p][t].index = i

\* all() of pipeline p has started its tasks
Started(p) == plState[p] \in {"waiting"} \cup PipelineOver

\* C11: one call of all() calls base() exactly once, and its three stages
\* run in the one container description that call returned.
C11_OneEnvironment ==
    \A p \in Pipelines :
        Started(p) =>
            /\ Len(built[p]) = 1
            /\ \A t \in Tasks :
                  SubSeq(task[p][t].coro.execs, 1, Len(built[p][1].execs))
                      = built[p][1].execs

\* the objects and the containers of the branches of ci() are those of the
\* branch's own version, with dir and env of the receiver
BranchesOwnVersion ==
    entry = "ci" =>
        \A p \in Pipelines :
            /\ plState[p] # "none" =>
                  bl[p] = [dir |-> self.dir, env |-> self.env,
                           version |-> python_versions[p]]
            /\ Started(p) =>
                  \A t \in Tasks :
                      /\ task[p][t].coro.image = <<"python:", python_versions[p]>>
                      /\ task[p][t].coro.cache.name[2] = python_versions[p]
                      /\ task[p][t].coro.dirs = << <<"/src", self.dir>> >>
            /\ \A i \in Slots :
                  writes[p][i] # <<>> =>
                      \E k \in DOMAIN output[p][i][1] :
                          output[p][i][1][k] = python_versions[p]

\* C12: ci() leaves the object it is called on unchanged, gives every branch
\* a fresh object with the branch's version and the receiver's dir and env,
\* and every stage of a branch runs with, and reports, its own version only.
C12_NoSharedConfig ==
    /\ [] BranchesOwnVersion
    /\ [][self' = self]_vars

\* C12 witness: under ci() on an object with a given env, two branches are
\* running at once and each has written a stage output
C12_Witness ==
    /\ entry = "ci" /\ self.env # DefaultEnv
    /\ \E p \in Pipelines, q \in Pipelines :
          /\ p # q
          /\ plState[p] = "waiting" /\ plState[q] = "waiting"
          /\ \E i \in Slots : writes[p][i] # <<>>
          /\ \E i \in Slots : writes[q][i] # <<>>

\* the places of the two flake8 passes among the commands of a container
StrictAt(c) == CHOOSE k \in DOMAIN c.execs : c.execs[k] = StrictLint
PermissiveAt(c) == CHOOSE k \in DOMAIN c.execs : c.execs[k] = PermissiveLint

\* C13: when the engine gets as far as the strict pass of lint(), the stage
\* fails if and only if the strict pass exits non-zero, and the permissive
\* pass is run, exiting 0, whatever the strict pass did.
C13_TwoTier ==
    \A p \in Pipelines :
        LET t == TaskOf(p, 1)
            c == task[p][t].coro
            r == ran[p][t]
        IN  ( /\ Started(p)
              /\ r # NoRun
              /\ Len(r.exits) >= StrictAt(c) )
            => /\ StageFailed(p, t) <=> r.exits[StrictAt(c)] # 0
               /\ Len(r.exits) >= PermissiveAt(c)
               /\ r.exits[PermissiveAt(c)] = 0

\* C14: the string in slot 1 of all() is the output of the strict pass
\* followed by the output of the permissive pass.
C14_BothPasses ==
    \A p \in Pipelines :
        writes[p][1] # <<>> =>
            LET c == task[p][TaskOf(p, 1)].coro
            IN  output[p][1] = Prints(c, StrictLint) \o Prints(c, PermissiveLint)

\* the test runner's command line for the container c: what its echo prints
ToxCommand(c) == Tail(c.execs[Len(c.execs)])

\* the test runner exits non-zero when it is run in the container c
ToxFails(c) == [image |-> c.image, at |-> ToxCommand(c)] \in faults

\* C15: the test stage runs the test runner of its version, and when the
\* test runner exits non-zero the stage is not reported as done but failed.
C15_TestFailureReported ==
    \A p \in Pipelines :
        LET t == TaskOf(p, 2)
            c == task[p][t].coro
        IN  (Started(p) /\ ran[p][t] # NoRun /\ ToxFails(c)) =>
               /\ stState[p][t] # "done"
               /\ StageFailed(p, t)

\* C16: the containers of two pipelines have the same cache volume name
\* exactly when the pipelines have the same version, and the containers of one
\* pipeline (the ones base() returned, the ones its tasks evaluate) all have
\* the same one.
C16_CachePerVersion ==
    /\ \A p \in Pipelines :
          Started(p) =>
              /\ \A t \in Tasks :
                    task[p][t].coro.cache.name = built[p][1].cache.name
              /\ \A k \in DOMAIN built[p] :
                    built[p][k].cache.name = built[p][1].cache.name
              /\ \A q \in Pipelines \ {p} :
                    Started(q) =>
                        ( built[p][1].cache.name = built[q][1].cache.name
                            <=> bl[p].version = bl[q].version )

\* C16 witness: under ci() the pipelines of all versions run at once
C16_Witness ==
    /\ entry = "ci"
    /\ \A p \in Pipelines :
          plState[p] = "waiting" /\ \E t \in Tasks : stState[p][t] = "awaiting"

\* C17: the list of ci() holds the reports of the pipelines that returned,
\* one each, in the order in which they returned.
C17_CompletionOrder ==
    entry = "ci" =>
        /\ Len(ciOutput) = Len(order)
        /\ \A k \in DOMAIN ciOutput :
              ciOutput[k] = Join(<<output[order[k]][0], output[order[k]][1],
                                   output[order[k]][2]>>)
        /\ \A p \in Pipelines :
              Cardinality({k \in DOMAIN order : order[k] = p})
                  = IF plState[p] = "returned" THEN 1 ELSE 0
        /\ callPc = "returned" => result = Join(ciOutput)

\* C17 witness: ci() returned the three reports, and they did not return in
\* the order of the version list
C17_Witness ==
    /\ entry = "ci" /\ callPc = "returned"
    /\ Len(order) = Len(python_versions)
    /\ \E k \in DOMAIN order : order[k] # k

\* the scheduler runs a task that can run, and the engine answers every call
FairSpec == Spec /\ WF_vars(Next)

\* C18: every call of all() and of ci() eventually finishes, returning or
\* raising.
C18_Terminates == <>CallOver

\* C18 witness: ci() finished raising after a stage failed, with other tasks
\* cancelled; the group waited for them
C18_Witness ==
    /\ entry = "ci" /\ callPc = "raised"
    /\ \E p \in Pipelines, t \in Tasks : stState[p][t] = "raised"
    /\ \E p \in Pipelines, t \in Tasks : stState[p][t] = "cancelled"
    /\ \E p \in Pipelines, t \in Tasks : stState[p][t] = "done"

\* C19: when all() has returned, each of the three slots was assigned by a
\* task, and no report holds the empty string a slot starts with.
C19_NoEmptySlot ==
    /\ \A p \in Pipelines :
          plState[p] = "returned" =>
              \A i \in Slots : writes[p][i] # <<>> /\ output[p][i] # EmptyStr
    /\ \A R \in Reports : \A k \in DOMAIN R : R[k] # <<>>

\* C19 witness: the caller's all() returned on the object of the defaults
C19_Witness ==
    /\ entry = "all" /\ callPc = "returned"
    /\ self.version = DefaultVersion
    /\ \A i \in Slots : writes[1][i] # <<>>

====
